---- MODULE Spec2Model ----
(***************************************************************************)
(* SREA (static robust execution algorithm) of scheduler/srea.py: the      *)
(* binary search of srea over the risk level alpha, the LP that setUpLP    *)
(* builds once and srea_LP completes per trial, and the commit of the LP   *)
(* variables' values onto the working network.                             *)
(*                                                                         *)
(* Numbers.  alpha is a tick i standing for i/1000 (alphas[i]).  lb and ub *)
(* are numerators over 2*Ticks, so that lb*1000 can fall between two       *)
(* ticks.  Every number of the LP (edge weights, quantiles, variable       *)
(* bounds and values) is an integer count of 1/LPScale, LPScale = 2*Ticks: *)
(* the uniform quantile at a probability k/(2*Ticks) is then exact.        *)
(***************************************************************************)
EXTENDS Integers, Sequences, FiniteSets, TLC

(***************************************************************************)
(* Bounds of the model.                                                    *)
(***************************************************************************)
\* lb and ub are drawn from the numerators within Spread of 0, 0.9995, 1.0005
Spread == 1

(***************************************************************************)
(* Program constants.                                                      *)
(***************************************************************************)
\* srea.py:110  alphas = {i: i / 1000.0 for i in range(1001)}
Ticks == 1000
\* float('inf'): the value of invcdf_norm at probability 1, and the weight
\* of an absent edge
Inf == 100000000

LbUbDen == 2 * Ticks
LPScale == 2 * Ticks

None == <<>>
Some(x) == <<x>>
Val(o) == o[1]

Min2(a, b) == IF a <= b THEN a ELSE b

\* math.floor and math.ceil of n/d, d > 0
Floor(n, d) == n \div d
Ceil(n, d) == -((-n) \div d)

IsFinite(x) == -Inf < x /\ x < Inf
\* float arithmetic with infinities: -x, x - y, x + y, s * x (s > 0)
XNeg(x) == IF x >= Inf THEN -Inf ELSE IF x <= -Inf THEN Inf ELSE -x
XAdd(x, y) ==
    IF x >= Inf \/ y >= Inf THEN Inf
    ELSE IF x <= -Inf \/ y <= -Inf THEN -Inf
    ELSE x + y
XSub(x, y) == XAdd(x, XNeg(y))
XMul(s, x) == IF x >= Inf THEN Inf ELSE IF x <= -Inf THEN -Inf ELSE s * x

(***************************************************************************)
(* Temporal networks (PSTN): nodes, weighted edges, contingent             *)
(* constraints.  Weights are whole time units.                             *)
(***************************************************************************)
Gaussian(mu, sigma) ==
    [dtype |-> "gaussian", mu |-> mu, sigma |-> sigma, dist_lb |-> 0, dist_ub |-> 0]
Uniform(lo, hi) ==
    [dtype |-> "uniform", mu |-> 0, sigma |-> 0, dist_lb |-> lo, dist_ub |-> hi]

Nodes(stn) == stn.nodes
Edges(stn) == DOMAIN stn.w
GetContingentConstraints(stn) == stn.cc

GetEdgeWeight(stn, i, j) ==
    IF <<i, j>> \in DOMAIN stn.w THEN stn.w[<<i, j>>]
    ELSE IF i = j THEN 0 ELSE Inf

UpdateEdgeWeight(stn, i, j, v) ==
    IF <<i, j>> \in DOMAIN stn.w
    THEN [stn EXCEPT !.w = [stn.w EXCEPT ![<<i, j>>] = v]]
    ELSE stn

\* iteration orders of nodes() and edges(): ascending
RECURSIVE NodeSeq(_)
NodeSeq(S) ==
    IF S = {} THEN <<>>
    ELSE LET m == CHOOSE x \in S : \A y \in S : x <= y
         IN  <<m>> \o NodeSeq(S \ {m})

EdgeLeq(e, f) == e[1] < f[1] \/ (e[1] = f[1] /\ e[2] <= f[2])

RECURSIVE EdgeSeq(_)
EdgeSeq(S) ==
    IF S = {} THEN <<>>
    ELSE LET m == CHOOSE x \in S : \A y \in S : EdgeLeq(x, y)
         IN  <<m>> \o EdgeSeq(S \ {m})

(***************************************************************************)
(* Minimal-Network Reducer (get_minimal_network): all-pairs shortest       *)
(* paths over the edges; None when the network has a negative cycle.       *)
(***************************************************************************)
\* one Bellman-Ford round: the distance of each node of S after relaxing
\* every edge of E once from the distances d
RECURSIVE RelaxRound(_, _, _)
RelaxRound(S, E, d) ==
    IF S = {} THEN <<>>
    ELSE LET v == CHOOSE x \in S : TRUE
             into == {d[e.from] + e.wt : e \in {f \in E : f.to = v /\ d[f.from] < Inf}}
             best == IF into = {} THEN d[v]
                     ELSE Min2(d[v], CHOOSE x \in into : \A y \in into : x <= y)
         IN  (v :> best) @@ RelaxRound(S \ {v}, E, d)

\* Bellman-Ford: d after k rounds
RECURSIVE Relax(_, _, _, _)
Relax(V, E, d, k) ==
    IF k = 0 THEN d
    ELSE LET nd == RelaxRound(V, E, d)
         IN  Relax(V, E, nd, k - 1)

\* no negative cycle among the difference edges E (to - from <= wt) over V
NoNegativeCycle(V, E) ==
    LET d == Relax(V, E, RelaxRound(V, {}, [v \in V |-> 0]), Cardinality(V))
    IN  \A e \in E : d[e.from] + e.wt >= d[e.to]

StnEdges(stn) ==
    {[from |-> e[1], to |-> e[2], wt |-> stn.w[e]] : e \in DOMAIN stn.w}

\* shortest distance from s to every node, over a network without negative cycle
ShortestFrom(stn, s) ==
    LET V == Nodes(stn)
        E == StnEdges(stn) \cup {[from |-> s, to |-> s, wt |-> 0]}
        start == [v \in V |-> IF v = s THEN 0 ELSE Inf]
    IN  Relax(V, E, RelaxRound(V, {}, start), Cardinality(V))

GetMinimalNetwork(stn) ==
    IF ~NoNegativeCycle(Nodes(stn), StnEdges(stn)) THEN None
    ELSE Some([stn EXCEPT !.w =
                  [e \in DOMAIN stn.w |-> ShortestFrom(stn, e[1])[e[2]]]])

(***************************************************************************)
(* Distribution quantiles (invcdf_norm, invcdf_uniform).  A probability is *)
(* a numerator pk over 2*Ticks; the result counts 1/LPScale.               *)
(***************************************************************************)
\* standard normal quantile at pk/(2*Ticks) <= 1/2, times LPScale: the
\* table values of the normal distribution, joined by straight lines
ZBreaks ==
    << <<1, -6581>>, <<6, -5496>>, <<50, -3920>>, <<100, -3290>>,
       <<200, -2563>>, <<500, -1349>>, <<1000, 0>> >>

RECURSIVE ZLow(_, _)
ZLow(pk, n) ==
    LET a == ZBreaks[n]
        b == ZBreaks[n + 1]
    IN  IF pk > b[1] THEN ZLow(pk, n + 1)
        ELSE a[2] + ((pk - a[1]) * (b[2] - a[2])) \div (b[1] - a[1])

ZScore(pk) ==
    IF pk <= 0 THEN -Inf
    ELSE IF pk >= 2 * Ticks THEN Inf
    ELSE IF pk <= Ticks THEN ZLow(pk, 1)
    ELSE -ZLow(2 * Ticks - pk, 1)

invcdf_norm(pk, mu, sigma) == XAdd(mu * LPScale, XMul(sigma, ZScore(pk)))

invcdf_uniform(pk, lo, hi) == lo * LPScale + pk * (hi - lo)

(***************************************************************************)
(* The LP.  A variable is [lowBound, upBound, varValue], each None or      *)
(* Some(n).  A constraint is  a - b  sense  c + ds * delta[d]  over the    *)
(* bound variables a, b (ds = 0 and d = None when it has no delta).  A     *)
(* problem is the sequence of its constraints, in the order added.         *)
(***************************************************************************)
LpVariable(lo, up) == [lowBound |-> lo, upBound |-> up, varValue |-> None]

Constraint(a, b, sense, c, d, ds) ==
    [a |-> a, b |-> b, sense |-> sense, c |-> c, d |-> d, ds |-> ds]

ScaleW(w) == XMul(LPScale, w)

\* srea.py:58-68: the two bound variables of node i
BoundVars(stn) ==
    [k \in Nodes(stn) \X {"+", "-"} |->
        LpVariable(Some(XNeg(ScaleW(GetEdgeWeight(stn, k[1], 0)))),
                   Some(ScaleW(GetEdgeWeight(stn, 0, k[1]))))]

\* srea.py:67-68: bounds[(i,'+')] >= bounds[(i,'-')], node by node
RECURSIVE NodeConstraints(_)
NodeConstraints(ns) ==
    IF ns = <<>> THEN <<>>
    ELSE <<Constraint(<<Head(ns), "+">>, <<Head(ns), "-">>, ">=", 0, None, 0)>>
         \o NodeConstraints(Tail(ns))

\* srea.py:70-76: a delta variable for each contingent edge and its reverse
DeltaVars(stn) ==
    LET cc == DOMAIN GetContingentConstraints(stn)
        on == {e \in Edges(stn) : e \in cc}
    IN  [k \in on \cup {<<e[2], e[1]>> : e \in on} |-> LpVariable(Some(0), None)]

\* srea.py:82: the edges that give requirement constraints
IsRequirementEdge(stn, decouple, e) ==
    /\ e \notin DOMAIN GetContingentConstraints(stn)
    /\ e[1] # 0
    /\ e[2] # 0
    /\ <<e[2], e[1]>> \notin DOMAIN GetContingentConstraints(stn)
    /\ ~decouple

\* srea.py:71-86: two inequalities per requirement edge, edge by edge
RECURSIVE EdgeConstraints(_, _, _)
EdgeConstraints(stn, decouple, es) ==
    IF es = <<>> THEN <<>>
    ELSE LET i == Head(es)[1]
             j == Head(es)[2]
         IN  (IF IsRequirementEdge(stn, decouple, Head(es))
              THEN << Constraint(<<j, "+">>, <<i, "-">>, "<=",
                                 ScaleW(GetEdgeWeight(stn, i, j)), None, 0),
                      Constraint(<<i, "+">>, <<j, "-">>, "<=",
                                 ScaleW(GetEdgeWeight(stn, j, i)), None, 0) >>
              ELSE <<>>)
             \o EdgeConstraints(stn, decouple, Tail(es))

\* srea.py:42-87
SetUpLP(stn, decouple) ==
    [bounds |-> BoundVars(stn),
     deltas |-> DeltaVars(stn),
     prob   |-> NodeConstraints(NodeSeq(Nodes(stn)))
                \o EdgeConstraints(stn, decouple, EdgeSeq(Edges(stn)))]

(***************************************************************************)
(* srea_LP at the tick alpha: quantiles, delta bounds, the two equality    *)
(* constraints per contingent constraint.                                  *)
(***************************************************************************)
\* the upper quantile taken at alpha/2 instead of 1 - alpha/2
PIjLowTail(c, alpha) ==
    IF c.dtype = "gaussian" THEN invcdf_norm(alpha, c.mu, c.sigma)
    ELSE invcdf_uniform(alpha, c.dist_lb, c.dist_ub)

\* srea.py:212, 218   invcdf(1.0 - alpha * 0.5)
PIj(c, alpha) ==
    IF c.dtype = "gaussian" THEN invcdf_norm(2 * Ticks - alpha, c.mu, c.sigma)
    ELSE invcdf_uniform(2 * Ticks - alpha, c.dist_lb, c.dist_ub)

\* srea.py:213, 220   -invcdf(alpha * 0.5)
PJi(c, alpha) ==
    IF c.dtype = "gaussian" THEN XNeg(invcdf_norm(alpha, c.mu, c.sigma))
    ELSE XNeg(invcdf_uniform(alpha, c.dist_lb, c.dist_ub))

\* srea.py:214, 221   invcdf_norm(0.997), invcdf_uniform(0.0)
LimitIj(c) ==
    IF c.dtype = "gaussian"
    THEN invcdf_norm((997 * 2 * Ticks) \div 1000, c.mu, c.sigma)
    ELSE invcdf_uniform(0, c.dist_lb, c.dist_ub)

\* srea.py:215, 222   -invcdf_norm(0.003), -invcdf_uniform(1.0)
LimitJi(c) ==
    IF c.dtype = "gaussian"
    THEN XNeg(invcdf_norm((3 * 2 * Ticks) \div 1000, c.mu, c.sigma))
    ELSE XNeg(invcdf_uniform(2 * Ticks, c.dist_lb, c.dist_ub))

\* srea.py:224-225: both assignments go to deltas[(i, j)]; the second stays
DeltaUpBound(c, alpha) ==
    LET first  == XSub(LimitIj(c), PIj(c, alpha))
        second == XSub(LimitJi(c), PJi(c, alpha))
    IN  second

\* srea.py:224-225 over every contingent constraint
SetDeltaBounds(stn, deltas, alpha) ==
    LET cc == GetContingentConstraints(stn)
    IN  [k \in DOMAIN deltas |->
            IF k \in DOMAIN cc
            THEN [deltas[k] EXCEPT !.upBound = Some(DeltaUpBound(cc[k], alpha))]
            ELSE deltas[k]]

\* srea.py:227-232: cons1 and cons2 of each contingent constraint
RECURSIVE AlphaConstraints(_, _, _)
AlphaConstraints(stn, alpha, es) ==
    IF es = <<>> THEN <<>>
    ELSE LET i == Head(es)[1]
             j == Head(es)[2]
             c == GetContingentConstraints(stn)[Head(es)]
         IN  << Constraint(<<j, "+">>, <<i, "+">>, "==",
                           PIj(c, alpha), Some(<<i, j>>), 1),
                Constraint(<<j, "-">>, <<i, "-">>, "==",
                           XNeg(PJi(c, alpha)), Some(<<j, i>>), -1) >>
             \o AlphaConstraints(stn, alpha, Tail(es))

InjectedConstraints(stn, alpha) ==
    AlphaConstraints(stn, alpha, EdgeSeq(DOMAIN GetContingentConstraints(stn)))

(***************************************************************************)
(* The LP solver: whether the problem, under the variables' bounds, has a  *)
(* solution.  Every constraint bounds a difference of two bound variables  *)
(* once its delta is replaced by the delta's range, so the LP is feasible  *)
(* iff its difference graph has no negative cycle.                         *)
(***************************************************************************)
Ref == <<-1, "z">>

VarEdges(bounds) ==
    UNION {
        (IF bounds[k].upBound = None THEN {}
         ELSE {[from |-> Ref, to |-> k, wt |-> Val(bounds[k].upBound)]})
        \cup
        (IF bounds[k].lowBound = None THEN {}
         ELSE {[from |-> k, to |-> Ref, wt |-> -Val(bounds[k].lowBound)]})
        : k \in DOMAIN bounds }

\* the range of  ds * delta: <<low, high>>, high = Inf when unbounded
DeltaRange(deltas, c) ==
    IF c.d = None THEN <<0, 0>>
    ELSE LET v  == deltas[Val(c.d)]
             lo == Val(v.lowBound)
             up == IF v.upBound = None THEN Inf ELSE Val(v.upBound)
         IN  IF c.ds = 1 THEN <<lo, up>> ELSE <<XNeg(up), -lo>>

ConstraintEdges(prob, deltas) ==
    UNION {
        LET c == prob[n]
            r == DeltaRange(deltas, c)
            hi == XAdd(c.c, r[2])
            lo == XAdd(c.c, r[1])
        IN  (IF c.sense \in {"<=", "=="} /\ hi < Inf
             THEN {[from |-> c.b, to |-> c.a, wt |-> hi]} ELSE {})
            \cup
            (IF c.sense \in {">=", "=="} /\ lo > -Inf
             THEN {[from |-> c.a, to |-> c.b, wt |-> -lo]} ELSE {})
        : n \in 1..Len(prob) }

\* a variable whose bounds cross, or a coefficient that is not finite
VarsConsistent(vars) ==
    \A k \in DOMAIN vars :
        vars[k].lowBound # None /\ vars[k].upBound # None
            => Val(vars[k].lowBound) <= Val(vars[k].upBound)

\* two equalities on the same difference and the same delta must agree
SharedDeltaConsistent(prob) ==
    \A m, n \in 1..Len(prob) :
        ( /\ prob[m].sense = "==" /\ prob[n].sense = "=="
          /\ prob[m].d = prob[n].d /\ prob[m].ds = prob[n].ds
          /\ prob[m].a = prob[n].a /\ prob[m].b = prob[n].b )
        => prob[m].c = prob[n].c

AllFinite(prob) == \A n \in 1..Len(prob) : IsFinite(prob[n].c)

LPFeasible(prob, bounds, deltas) ==
    /\ VarsConsistent(bounds)
    /\ VarsConsistent(deltas)
    /\ AllFinite(prob)
    /\ SharedDeltaConsistent(prob)
    /\ NoNegativeCycle({Ref} \cup DOMAIN bounds,
                       VarEdges(bounds) \cup ConstraintEdges(prob, deltas))

\* the verdict of srea_LP at alpha on variables and a problem fresh from setUpLP
FeasibleAt(stn, decouple, alpha) ==
    LET lp == SetUpLP(stn, decouple)
    IN  LPFeasible(lp.prob \o InjectedConstraints(stn, alpha),
                   lp.bounds, SetDeltaBounds(stn, lp.deltas, alpha))

(***************************************************************************)
(* The networks tried.                                                     *)
(***************************************************************************)
\* spec section 8: window [0, 20] of node 1, contingent (0,1) ~ N(10, 2)
NetGaussian ==
    [nodes |-> {0, 1},
     w  |-> (<<0, 1>> :> 20 @@ <<1, 0>> :> 0),
     cc |-> (<<0, 1>> :> Gaussian(10, 2))]

\* the same with contingent (0,1) ~ U(8, 12)
NetUniform ==
    [nodes |-> {0, 1},
     w  |-> (<<0, 1>> :> 20 @@ <<1, 0>> :> 0),
     cc |-> (<<0, 1>> :> Uniform(8, 12))]

\* node 1 fixed at 0, node 2 in [7, hi], contingent (1,2) ~ N(10, 2)
NetChain(hi) ==
    [nodes |-> {0, 1, 2},
     w  |-> (<<0, 1>> :> 0 @@ <<1, 0>> :> 0 @@ <<0, 2>> :> hi @@ <<2, 0>> :> -7
             @@ <<1, 2>> :> 30 @@ <<2, 1>> :> 0),
     cc |-> (<<1, 2>> :> Gaussian(10, 2))]

\* requirement edges only; the edge 1 -> 2 tightens the window of node 2
NetRequirement ==
    [nodes |-> {0, 1, 2},
     w  |-> (<<0, 1>> :> 10 @@ <<1, 0>> :> 0 @@ <<0, 2>> :> 30 @@ <<2, 0>> :> -5
             @@ <<1, 2>> :> 8 @@ <<2, 1>> :> -2),
     cc |-> <<>>]

\* spec section 8: the window of node 1 is empty
NetInconsistent ==
    [nodes |-> {0, 1},
     w  |-> (<<0, 1>> :> 5 @@ <<1, 0>> :> -6),
     cc |-> <<>>]

(***************************************************************************)
(* srea: the state of one call.                                            *)
(***************************************************************************)
VARIABLES
    pc,          \* where the call stands: enter, reduce, setup, loop, done
    kind,        \* the type of the object passed in: "PSTN" or another
    orig,        \* the network the caller passed, as it was at the call
    decouple, returnAlpha, lb, ub,      \* the arguments
    heap,        \* the network objects, by reference; "caller" is the caller's
    inputstn,    \* the local inputstn: None or Some(reference)
    lower, upper, result,               \* the binary search
    bounds, deltas, probBase,           \* what setUpLP returned
    prob,        \* the problem given to the last trial
    ret,         \* how the call ended
    oracle,      \* the LP solver assumed: [mode, thr]
    tried,       \* the verdict of every trial so far, by tick
    last,        \* the last trial: None or Some([alpha, optimal])
    winVals,     \* the bound variables' values when result was recorded
    calls        \* how often the reducer, setUpLP, srea_LP, solve were called

vars == << pc, kind, orig, decouple, returnAlpha, lb, ub, heap, inputstn,
           lower, upper, result, bounds, deltas, probBase, prob, ret, oracle,
           tried, last, winVals, calls >>

Running == [how |-> "running", exc |-> "", alpha |-> None, stn |-> None]
Return(a, n) == [how |-> "return", exc |-> "", alpha |-> a, stn |-> n]
Raise(e) == [how |-> "raise", exc |-> e, alpha |-> None, stn |-> None]

\* the numerators lb and ub are drawn from
LowSet == (0 - Spread)..Spread
HighSet == (2 * Ticks - 1 - Spread)..(2 * Ticks + 1 + Spread)
LbUbSet == LowSet \cup HighSet

\* srea.py:95-96  the default arguments lb=0.0, ub=0.999
DefaultPair == <<0, (999 * LbUbDen) \div 1000>>

\* every pair <<lb, ub>> of the set
AllPairs == LbUbSet \X LbUbSet
\* the default pair and the pairs that leave a short search or none
NarrowPairs ==
    {DefaultPair} \cup {p \in AllPairs : ~(p[1] \in LowSet /\ p[2] \in HighSet)}

\* the thresholds of the monotone oracles: feasible iff tick >= thr
ThrSet == {0, 1, 6, Ticks \div 2, Ticks - 1, Ticks, Ticks + 1}

InitWith(nets, oracles, pairs) ==
    /\ pc = "enter"
    /\ kind \in {"PSTN", "STN"}
    /\ orig \in nets
    /\ decouple \in BOOLEAN
    /\ returnAlpha \in BOOLEAN
    /\ \E p \in pairs : lb = p[1] /\ ub = p[2]
    /\ heap = ("caller" :> orig)
    /\ inputstn = Some("caller")
    /\ lower = 0
    /\ upper = 0
    /\ result = None
    /\ bounds = <<>>
    /\ deltas = <<>>
    /\ probBase = <<>>
    /\ prob = <<>>
    /\ ret = Running
    /\ oracle \in oracles
    /\ tried = <<>>
    /\ last = None
    /\ winVals = None
    /\ calls = [reducer |-> 0, setUpLP |-> 0, srea_LP |-> 0, solve |-> 0]

\* a copy that is the very object it was given
AliasCopy(h, r) == [heap |-> h, ref |-> r]

\* srea.py:108  copy.deepcopy(inputstn): a new object, equal to the old
DeepCopy(h, r) == [heap |-> h @@ ("copy" :> h[r]), ref |-> "copy"]

\* the lower sentinel placed on the first tick instead of below it
InitialLowerOnTick(l) == Ceil(l * Ticks, LbUbDen)

\* srea.py:113
InitialLower(l) == Ceil(l * Ticks, LbUbDen) - 1
\* srea.py:114
InitialUpper(u) == Floor(u * Ticks, LbUbDen) + 1

\* srea.py:108-116
Enter ==
    /\ pc = "enter"
    /\ LET cp == DeepCopy(heap, Val(inputstn))
       IN  /\ heap' = cp.heap
           /\ inputstn' = Some(cp.ref)
    /\ lower' = InitialLower(lb)
    /\ upper' = InitialUpper(ub)
    /\ result' = None
    /\ pc' = IF ~decouple THEN "reduce" ELSE "setup"
    /\ UNCHANGED << kind, orig, decouple, returnAlpha, lb, ub, bounds, deltas,
                    probBase, prob, ret, oracle, tried, last, winVals, calls >>

\* the reducer's None not returned: the call goes on to setUpLP
ReduceNoReturn ==
    /\ pc = "reduce"
    /\ LET m == GetMinimalNetwork(heap[Val(inputstn)])
       IN  IF m = None
           THEN /\ heap' = heap
                /\ inputstn' = inputstn
           ELSE /\ inputstn' = Some("min")
                /\ heap' = heap @@ ("min" :> Val(m))
    /\ pc' = "setup"
    /\ calls' = [calls EXCEPT !.reducer = @ + 1]
    /\ UNCHANGED << kind, orig, decouple, returnAlpha, lb, ub, lower, upper,
                    result, bounds, deltas, probBase, prob, ret, oracle, tried,
                    last, winVals >>

\* srea.py:119-123
Reduce ==
    /\ pc = "reduce"
    /\ LET m == GetMinimalNetwork(heap[Val(inputstn)])
       IN  IF m = None
           THEN /\ inputstn' = None
                /\ heap' = heap
                /\ ret' = Return(None, None)
                /\ pc' = "done"
           ELSE /\ inputstn' = Some("min")
                /\ heap' = heap @@ ("min" :> Val(m))
                /\ ret' = ret
                /\ pc' = "setup"
    /\ calls' = [calls EXCEPT !.reducer = @ + 1]
    /\ UNCHANGED << kind, orig, decouple, returnAlpha, lb, ub, lower, upper,
                    result, bounds, deltas, probBase, prob, oracle, tried,
                    last, winVals >>

\* srea.py:124
SetUp ==
    /\ pc = "setup"
    /\ LET lp == SetUpLP(heap[Val(inputstn)], decouple)
       IN  /\ bounds' = lp.bounds
           /\ deltas' = lp.deltas
           /\ probBase' = lp.prob
    /\ calls' = [calls EXCEPT !.setUpLP = @ + 1]
    /\ pc' = "loop"
    /\ UNCHANGED << kind, orig, decouple, returnAlpha, lb, ub, heap, inputstn,
                    lower, upper, result, prob, ret, oracle, tried, last,
                    winVals >>

\* srea.py:127
LoopCond(lo, up) == up - lo > 1
\* srea.py:128, 142, 146
Mid(lo, up) == (up + lo) \div 2
\* srea.py:142  a feasible trial lowers upper to the tick tried
NextUpper(optimal, mid, up) == IF optimal THEN mid ELSE up

\* an infeasible trial moves lower past the tick tried
NextLowerPastMid(optimal, mid, lo) == IF optimal THEN lo ELSE mid + 1
\* srea.py:146  an infeasible trial raises lower to the tick tried
NextLower(optimal, mid, lo) == IF optimal THEN lo ELSE mid

\* the commit test off by one
SearchFinishedStrict(lo, up) == up - lo < 1
\* srea.py:149
SearchFinished(lo, up) == up - lo <= 1

\* the trial is given probBase itself, not a copy
TrialProblemsShared(base, added) == [base |-> base \o added, prob |-> base \o added]

\* srea.py:133 and 230-232: the trial's problem is a copy of probBase, and the
\* trial's constraints are added to the copy
TrialProblems(base, added) == [base |-> base, prob |-> base \o added]

\* the values a solve leaves in the bound variables: each '-' variable at
\* its lower bound, or one step above it when sm; each '+' variable
\* likewise by sp
SolStep == LPScale + LPScale \div 2 + 1
Assigned(bs, sm, sp) ==
    [k \in DOMAIN bs |->
        [bs[k] EXCEPT !.varValue =
            Some(IF (IF k[2] = "+" THEN sp ELSE sm)
                 THEN Min2(Val(bs[k].upBound), Val(bs[k].lowBound) + SolStep)
                 ELSE Val(bs[k].lowBound))]]

\* srea.py:254-266  prob.solve() and the status: what the solver may answer.
\* A solve writes a value into every bound variable, whatever the status (the
\* values of the delta variables are read nowhere and are left out).  With
\* mode "any" the solver answers anything or raises; with "mono" it is
\* feasible from the tick thr on; with "lp" it decides the LP it is given,
\* and may raise on a coefficient that is not finite.
SolveOutcomes(o, mid, p, bs, ds) ==
    LET opt == {[raised |-> FALSE, optimal |-> TRUE, sm |-> sm, sp |-> sp] :
                    sm \in BOOLEAN, sp \in BOOLEAN}
        Opt == {x \in opt : x.sm => x.sp}
        Not == {[raised |-> FALSE, optimal |-> FALSE, sm |-> sm, sp |-> sp] :
                    sm \in BOOLEAN, sp \in BOOLEAN}
        Err == {[raised |-> TRUE, optimal |-> FALSE, sm |-> FALSE, sp |-> FALSE]}
    IN  IF o.mode = "any" THEN Opt \cup Not \cup Err
        ELSE IF o.mode = "mono" THEN (IF mid >= o.thr THEN Opt ELSE Not)
        ELSE IF ~AllFinite(p) THEN Not \cup Err
        ELSE IF LPFeasible(p, bs, ds) THEN Opt ELSE Not

\* srea.py:155-161: the commit of the variables' values onto the network
RECURSIVE Commit(_, _, _)
Commit(stn, bs, keys) ==
    IF keys = <<>> THEN stn
    ELSE LET i == Head(keys)[1]
             sign == Head(keys)[2]
             next == IF sign = "+"
                     THEN UpdateEdgeWeight(stn, 0, i,
                              Ceil(Val(bs[<<i, "+">>].varValue), LPScale))
                     ELSE UpdateEdgeWeight(stn, i, 0,
                              Ceil(-Val(bs[<<i, "-">>].varValue), LPScale))
         IN  Commit(next, bs, Tail(keys))

RECURSIVE KeySeq(_)
KeySeq(ns) ==
    IF ns = <<>> THEN <<>>
    ELSE << <<Head(ns), "+">>, <<Head(ns), "-">> >> \o KeySeq(Tail(ns))

BoundValues(bs) == [k \in DOMAIN bs |-> bs[k].varValue]

\* srea.py:127-166: one pass of the loop, srea_LP (177-266) included
Iteration ==
    /\ pc = "loop"
    /\ LoopCond(lower, upper)
    /\ LET mid == Mid(lower, upper)
           stn == heap[Val(inputstn)]
       IN
       IF mid \notin 0..Ticks
       THEN \* srea.py:128  alphas[...] has no such key
            /\ ret' = Raise("KeyError")
            /\ pc' = "done"
            /\ UNCHANGED << heap, lower, upper, result, bounds, deltas,
                            probBase, prob, tried, last, winVals, calls >>
       ELSE IF kind # "PSTN"
       THEN \* srea.py:196-197
            /\ ret' = Raise("TypeError")
            /\ pc' = "done"
            /\ calls' = [calls EXCEPT !.srea_LP = @ + 1]
            /\ UNCHANGED << heap, lower, upper, result, bounds, deltas,
                            probBase, prob, tried, last, winVals >>
       ELSE
         LET ps == TrialProblems(probBase, InjectedConstraints(stn, mid))
             nd == SetDeltaBounds(stn, deltas, mid)
         IN
         \E out \in SolveOutcomes(oracle, mid, ps.prob, bounds, nd) :
            /\ probBase' = ps.base
            /\ prob' = ps.prob
            /\ deltas' = nd
            /\ calls' = [calls EXCEPT !.srea_LP = @ + 1, !.solve = @ + 1]
            /\ IF out.raised
               THEN /\ ret' = Raise("PulpSolverError")
                    /\ pc' = "done"
                    /\ UNCHANGED << heap, lower, upper, result, bounds, tried,
                                    last, winVals >>
               ELSE
                 LET nb == Assigned(bounds, out.sm, out.sp)
                     up == NextUpper(out.optimal, mid, upper)
                     lo == NextLower(out.optimal, mid, lower)
                     rs == IF out.optimal
                           THEN Some([alpha |-> mid, LPbounds |-> "bounds"])
                           ELSE result
                 IN  /\ bounds' = nb
                     /\ upper' = up
                     /\ lower' = lo
                     /\ result' = rs
                     /\ tried' = (mid :> out.optimal) @@ tried
                     /\ last' = Some([alpha |-> mid, optimal |-> out.optimal])
                     /\ winVals' = IF out.optimal THEN Some(BoundValues(nb))
                                   ELSE winVals
                     /\ IF SearchFinished(lo, up) /\ rs # None
                        THEN /\ heap' = [heap EXCEPT ![Val(inputstn)] =
                                    Commit(stn, nb, KeySeq(NodeSeq(Nodes(stn))))]
                             /\ ret' = IF returnAlpha
                                       THEN Return(Some(Val(rs).alpha), inputstn)
                                       ELSE Return(None, inputstn)
                             /\ pc' = "done"
                        ELSE /\ heap' = heap
                             /\ ret' = ret
                             /\ pc' = "loop"
    /\ UNCHANGED << kind, orig, decouple, returnAlpha, lb, ub, inputstn, oracle >>

\* srea.py:167-174
LoopExit ==
    /\ pc = "loop"
    /\ ~LoopCond(lower, upper)
    /\ ret' = IF result = None THEN Return(None, None)
              ELSE Raise("AssertionError")
    /\ pc' = "done"
    /\ UNCHANGED << kind, orig, decouple, returnAlpha, lb, ub, heap, inputstn,
                    lower, upper, result, bounds, deltas, probBase, prob,
                    oracle, tried, last, winVals, calls >>

Next == Enter \/ Reduce \/ SetUp \/ Iteration \/ LoopExit

AnyOracle == {[mode |-> "any", thr |-> 0]}
MonoOracles == {[mode |-> "mono", thr |-> t] : t \in ThrSet}
LPOracle == {[mode |-> "lp", thr |-> 0]}

\* any sequence of solver answers
Init == InitWith({NetGaussian, NetInconsistent}, AnyOracle, NarrowPairs)
Spec == Init /\ [][Next]_vars

\* a solver whose verdict is monotone in alpha
InitMono == InitWith({NetGaussian, NetInconsistent}, MonoOracles, AllPairs)
SpecMono == InitMono /\ [][Next]_vars

\* the solver decides the LP that was built
InitLP ==
    InitWith({NetGaussian, NetUniform, NetChain(13), NetChain(9),
              NetRequirement, NetInconsistent}, LPOracle, NarrowPairs)
SpecLP == InitLP /\ [][Next]_vars

(***************************************************************************)
(* What the claims speak of.                                               *)
(***************************************************************************)
\* the first and the last tick of the search interval
FirstTick == Ceil(lb * Ticks, LbUbDen)
LastTick == Floor(ub * Ticks, LbUbDen)
\* 0 <= lb <= ub <= 1
BoundsInOrder == 0 <= lb /\ lb <= ub /\ ub <= LbUbDen

Started == pc # "enter"
Committed == pc = "done" /\ ret.how = "return" /\ ret.stn # None
\* the reducer was asked and answered None
ReducerRefused == Started /\ pc # "reduce" /\ calls.reducer = 1 /\ inputstn = None
\* the network setUpLP was given
WorkingNet == IF decouple THEN orig ELSE Val(GetMinimalNetwork(orig))
LPBuilt == calls.setUpLP > 0

SetMin(S) == CHOOSE x \in S : \A y \in S : x <= y
SetMax(S) == CHOOSE x \in S : \A y \in S : x >= y
FeasibleTried == {t \in DOMAIN tried : tried[t]}
InfeasibleTried == {t \in DOMAIN tried : ~tried[t]}

\* the verdict of a trial at the tick a on the variables and base problem held now
TrialFeasible(a) ==
    LPFeasible(probBase \o InjectedConstraints(WorkingNet, a), bounds,
               SetDeltaBounds(WorkingNet, deltas, a))

SampleTicks == {0, 5, 6, 139, 140, Ticks \div 2, Ticks}

(***************************************************************************)
(* C1.  Under a solver whose verdict is monotone in alpha (feasible iff    *)
(* tick >= thr), for a PSTN the reducer accepts and 0 <= lb <= ub <= 1,    *)
(* srea ends by returning: the network with the recorded alpha the least   *)
(* feasible tick of ceil(lb*1000)..floor(ub*1000) (and that alpha beside   *)
(* it when returnAlpha), or None exactly when no tick of that range is     *)
(* feasible; it never raises.                                              *)
(***************************************************************************)
C1_LeastFeasibleAlpha ==
    (pc = "done" /\ kind = "PSTN" /\ BoundsInOrder /\ ~ReducerRefused)
    => LET F == {k \in FirstTick..LastTick : k >= oracle.thr}
       IN  /\ ret.how = "return"
           /\ (F = {}) <=> (ret.stn = None)
           /\ F = {} => ret = Return(None, None) /\ result = None
           /\ F # {} => /\ result # None
                        /\ Val(result).alpha = SetMin(F)
                        /\ returnAlpha => ret.alpha = Some(SetMin(F))

\* a search of several trials that ends on a tick inside the range
C1_Witness ==
    /\ pc = "done" /\ kind = "PSTN" /\ BoundsInOrder /\ ~ReducerRefused
    /\ ret.alpha # None
    /\ Val(ret.alpha) = oracle.thr
    /\ Val(ret.alpha) > FirstTick
    /\ Cardinality(DOMAIN tried) >= 3

(***************************************************************************)
(* C2.  Whenever srea returns a network, the weights committed are the     *)
(* ceilings of the values the bound variables took in the winning trial:   *)
(* w(0,i) = ceil(v+) and w(i,0) = ceil(-v-) for every node i other than    *)
(* the reference, whatever trials ran after the winning one.               *)
(***************************************************************************)
C2_CommitsWinningValues ==
    Committed
    => LET stn == heap[Val(ret.stn)]
           v == Val(winVals)
       IN  \A i \in Nodes(stn) \ {0} :
               /\ GetEdgeWeight(stn, 0, i) = Ceil(Val(v[<<i, "+">>]), LPScale)
               /\ GetEdgeWeight(stn, i, 0) = Ceil(-Val(v[<<i, "-">>]), LPScale)

(***************************************************************************)
(* C3.  When decouple is false and the reducer answers None, srea returns  *)
(* None at once: setUpLP, srea_LP and the solver are never called.  When   *)
(* decouple is true the reducer is never called.                           *)
(***************************************************************************)
C3_InconsistentReturnsAtOnce ==
    /\ (~decouple /\ Started /\ pc # "reduce" /\ GetMinimalNetwork(orig) = None)
       => /\ pc = "done"
          /\ ret = Return(None, None)
          /\ calls = [reducer |-> 1, setUpLP |-> 0, srea_LP |-> 0, solve |-> 0]
    /\ decouple => calls.reducer = 0

\* the call ended on the reducer's None
C3_Witness ==
    pc = "done" /\ ~decouple /\ ReducerRefused /\ GetMinimalNetwork(orig) = None

(***************************************************************************)
(* C4.  srea never changes the caller's network: in every state, whatever  *)
(* the outcome, the caller's object is as it was at the call, and the      *)
(* network returned is another object.                                     *)
(***************************************************************************)
C4_CallerUntouched ==
    /\ heap["caller"] = orig
    /\ ret.stn # None => Val(ret.stn) # "caller"

\* a commit that changed weights of the network returned
C4_Witness ==
    /\ Committed
    /\ heap[Val(ret.stn)].w # orig.w
    /\ \E i \in Nodes(orig) : GetEdgeWeight(heap[Val(ret.stn)], 0, i)
                                # GetEdgeWeight(WorkingNet, 0, i)

(***************************************************************************)
(* C5.  For every object that is not a PSTN and every lb, ub, the call     *)
(* ends in TypeError, raised before any LP is built or solved, also when   *)
(* the tick interval is empty.                                             *)
(***************************************************************************)
C5_NonPSTNFailsFast ==
    (pc = "done" /\ kind # "PSTN")
    => /\ ret = Raise("TypeError")
       /\ calls.setUpLP = 0
       /\ calls.solve = 0

C7_UniformDeltaBound ==
    (last # None)
    => \A e \in DOMAIN GetContingentConstraints(orig) :
          LET c == GetContingentConstraints(orig)[e]
          IN  c.dtype = "uniform"
              => /\ {LimitIj(c), XNeg(LimitJi(c))}
                        = {c.dist_lb * LPScale, c.dist_ub * LPScale}
                 /\ deltas[e].upBound # None
                 /\ Val(deltas[e].upBound) >= Val(deltas[e].lowBound)
                 /\ Val(last).alpha = 0 => Val(deltas[e].upBound) = 0

(***************************************************************************)
(* C8.  The binary search invariant, for 0 <= lb <= ub <= 1 and any        *)
(* verdicts: lower < upper; the next tick tried lies strictly between      *)
(* them, within ceil(lb*1000)..floor(ub*1000) and 0..1000, and was not     *)
(* tried before; lower is its sentinel ceil(lb*1000)-1 or the greatest     *)
(* infeasible tick; upper is its sentinel floor(ub*1000)+1 or the least    *)
(* feasible tick; a result is recorded iff upper is not the sentinel, and  *)
(* its alpha is then upper.                                                *)
(***************************************************************************)
C8_SearchInvariant ==
    (Started /\ BoundsInOrder)
    => /\ lower < upper
       /\ \A t \in DOMAIN tried :
              FirstTick <= t /\ t <= LastTick /\ t \in 0..Ticks
       /\ (pc = "loop" /\ LoopCond(lower, upper))
          => /\ lower < Mid(lower, upper) /\ Mid(lower, upper) < upper
             /\ FirstTick <= Mid(lower, upper) /\ Mid(lower, upper) <= LastTick
             /\ Mid(lower, upper) \in 0..Ticks
             /\ Mid(lower, upper) \notin DOMAIN tried
       /\ Cardinality(DOMAIN tried)
              = calls.solve - (IF ret.exc = "PulpSolverError" THEN 1 ELSE 0)
       /\ lower = IF InfeasibleTried = {} THEN FirstTick - 1
                  ELSE SetMax(InfeasibleTried)
       /\ upper = IF FeasibleTried = {} THEN LastTick + 1
                  ELSE SetMin(FeasibleTried)
       /\ (result # None) <=> (upper # LastTick + 1)
       /\ result # None => Val(result).alpha = upper

\* a search that moved both ends
C8_Witness ==
    /\ Started /\ BoundsInOrder
    /\ FeasibleTried # {}
    /\ InfeasibleTried # {}
    /\ Cardinality(DOMAIN tried) >= 4
    /\ lower > FirstTick - 1
    /\ upper < LastTick + 1

(***************************************************************************)
(* C9.  Trials are independent: after any trials the base problem is the   *)
(* one setUpLP built; the problem of the last trial is the base problem    *)
(* followed by the two equalities per contingent constraint of that        *)
(* trial's alpha and nothing else; the bounds of every variable are those  *)
(* the network and that alpha give; and the verdict of the trial is the    *)
(* verdict of a trial at that tick on a problem and variables fresh from   *)
(* setUpLP, so that no verdict depends on the trials before it.            *)
(***************************************************************************)
C9_TrialsIndependent ==
    (LPBuilt /\ kind = "PSTN")
    => LET fresh == SetUpLP(WorkingNet, decouple)
       IN  /\ probBase = fresh.prob
           /\ \A k \in DOMAIN bounds :
                  /\ bounds[k].lowBound = fresh.bounds[k].lowBound
                  /\ bounds[k].upBound = fresh.bounds[k].upBound
           /\ last # None
              => /\ prob = fresh.prob \o InjectedConstraints(WorkingNet, Val(last).alpha)
                 /\ Len(prob) = Len(fresh.prob)
                       + 2 * Cardinality(DOMAIN GetContingentConstraints(WorkingNet))
                 /\ \A k \in DOMAIN deltas :
                        /\ deltas[k].lowBound = fresh.deltas[k].lowBound
                        /\ deltas[k].upBound =
                             SetDeltaBounds(WorkingNet, fresh.deltas,
                                            Val(last).alpha)[k].upBound
                 /\ tried[Val(last).alpha]
                        = FeasibleAt(WorkingNet, decouple, Val(last).alpha)

\* several trials with both verdicts on a network with a contingent constraint
C9_Witness ==
    /\ LPBuilt /\ kind = "PSTN"
    /\ DOMAIN GetContingentConstraints(orig) # {}
    /\ FeasibleTried # {}
    /\ InfeasibleTried # {}
    /\ Cardinality(DOMAIN tried) >= 3

(***************************************************************************)
(* C10.  The final assert is unreachable, for any lb, ub and any verdicts: *)
(* the call never ends in AssertionError; the code after the loop is       *)
(* reached only with no result recorded; a call that recorded a result and *)
(* returned did so through the commit; and the loop terminates, each trial *)
(* at least halving the width of the search interval.                      *)
(***************************************************************************)
C10_AssertUnreachable ==
    /\ ret.exc # "AssertionError"
    /\ (pc = "loop" /\ ~LoopCond(lower, upper)) => result = None
    /\ (pc = "done" /\ ret.how = "return" /\ result # None) => Committed
    /\ (Started /\ pc # "done")
       => (upper - lower - 1) * 2 ^ Cardinality(DOMAIN tried)
              < InitialUpper(ub) - InitialLower(lb)

\* the search of the default interval came to its end with a commit
C10_Witness ==
    /\ Committed
    /\ Cardinality(DOMAIN tried) >= 10
    /\ InfeasibleTried # {}

====
